---- MODULE Spec2Model ----
(***************************************************************************)
(* Model of scrape.py: one run of main() -- fetch the festival schedule,   *)
(* normalise it with extract_schedule_info() into a mapping from stage     *)
(* name to performance records, and write the mapping to the destination   *)
(* file.                                                                   *)
(*                                                                         *)
(* JSON values are tagged records: Null, Num(n), Str(s), List(<<..>>) and  *)
(* Obj(f), where f is a function from the keys that are present to their   *)
(* values (an absent key is simply not in DOMAIN f).  Python's None is     *)
(* Null.  A Python call that can raise returns [raised, value] here.       *)
(***************************************************************************)
EXTENDS Integers, Sequences, FiniteSets, TLC

VARIABLES pc, fetched, raw_data, idx, stages_dict, stages_data, log, file,
          writes, origin, emitted, file0

vars == <<pc, fetched, raw_data, idx, stages_dict, stages_data, log, file,
          writes, origin, emitted, file0>>

-----------------------------------------------------------------------------
(* JSON values and the Python operations used on them *)

Null == [t |-> "null"]
Num(n) == [t |-> "num", n |-> n]
Str(s) == [t |-> "str", s |-> s]
List(q) == [t |-> "list", items |-> q]
Obj(f) == [t |-> "obj", f |-> f]

EmptyFields == [k \in {} |-> Null]

IsObj(v) == v.t = "obj"

\* Python truth value of a decoded JSON value.
Truthy(v) ==
    CASE v.t = "null" -> FALSE
      [] v.t = "num"  -> v.n # 0
      [] v.t = "str"  -> v.s # ""
      [] v.t = "list" -> Len(v.items) > 0
      [] v.t = "obj"  -> DOMAIN v.f # {}

\* key in d
Has(d, k) == k \in DOMAIN d.f

\* d.get(k, default)
GetD(d, k, default) == IF Has(d, k) THEN d.f[k] ELSE default

\* d.get(k)
Get(d, k) == GetD(d, k, Null)

Ret(v) == [raised |-> FALSE, value |-> v]
Raise(e) == [raised |-> TRUE, value |-> Str(e)]

-----------------------------------------------------------------------------
(* timestamp_to_iso8601 *)

\* Largest epoch-millisecond value datetime.fromtimestamp accepts.  The real
\* limit (end of year 9999) does not fit the model checker's integers; the
\* model keeps the comparison and scales the limit down.
MaxTimestampMs == 100000000

\* Offset of the local time zone, which datetime.fromtimestamp applies.
LocalOffsetMs == 3600000

\* datetime.fromtimestamp(ms / 1000.0).isoformat(): the local wall-clock
\* date-time, as day number since the epoch and time of day.
isoformat(ms) ==
    LET local == ms + LocalOffsetMs
        day   == local \div 86400000
        rest  == local % 86400000
    IN  [t |-> "iso", day |-> day,
         hh |-> rest \div 3600000,
         mm |-> (rest % 3600000) \div 60000,
         ss |-> (rest % 60000) \div 1000,
         us |-> (rest % 1000) * 1000]

\* Variant: tests `not timestamp_ms` in place of `timestamp_ms is None`, so
\* that the epoch itself converts to None.
timestamp_to_iso8601_Falsy(timestamp_ms) ==
    IF timestamp_ms = Null \/ ~Truthy(timestamp_ms)
    THEN [raised |-> FALSE, value |-> Null, lines |-> <<>>]
    ELSE IF timestamp_ms.t # "num"
    THEN [raised |-> TRUE, value |-> Str("TypeError"), lines |-> <<>>]
    ELSE IF timestamp_ms.n > MaxTimestampMs \/ timestamp_ms.n < -MaxTimestampMs
    THEN [raised |-> FALSE, value |-> Null,
          lines |-> <<[kind |-> "timestamp_error", arg |-> timestamp_ms]>>]
    ELSE [raised |-> FALSE, value |-> isoformat(timestamp_ms.n), lines |-> <<>>]

\* Result: [raised, value, lines]; lines are the diagnostics it prints.
timestamp_to_iso8601(timestamp_ms) ==
    IF timestamp_ms = Null
    THEN [raised |-> FALSE, value |-> Null, lines |-> <<>>]
    ELSE IF timestamp_ms.t # "num"
    THEN [raised |-> TRUE, value |-> Str("TypeError"), lines |-> <<>>]
    ELSE IF timestamp_ms.n > MaxTimestampMs \/ timestamp_ms.n < -MaxTimestampMs
    THEN [raised |-> FALSE, value |-> Null,
          lines |-> <<[kind |-> "timestamp_error", arg |-> timestamp_ms]>>]
    ELSE [raised |-> FALSE, value |-> isoformat(timestamp_ms.n), lines |-> <<>>]

-----------------------------------------------------------------------------
(* extract_stage_name and the English-entry lookup *)

RECURSIVE ScanEN(_, _)
\* next((s for s in q if s.get('language') == 'EN'), None), from position i
ScanEN(q, i) ==
    IF i > Len(q) THEN Ret(Null)
    ELSE IF ~IsObj(q[i]) THEN Raise("AttributeError")
    ELSE IF Get(q[i], "language") = Str("EN") THEN Ret(q[i])
    ELSE ScanEN(q, i + 1)

\* The generator expression over a value that may not be a list.
FirstEN(localized) ==
    CASE localized.t = "list" -> ScanEN(localized.items, 1)
      [] localized.t = "obj" /\ DOMAIN localized.f = {} -> Ret(Null)
      [] localized.t = "str" /\ localized.s = "" -> Ret(Null)
      [] localized.t \in {"obj", "str"} -> Raise("AttributeError")
      [] OTHER -> Raise("TypeError")

extract_stage_name(stage_info) ==
    IF ~Truthy(stage_info) THEN Ret(Null)
    ELSE IF ~IsObj(stage_info) THEN Raise("AttributeError")
    ELSE LET localized_stages == GetD(stage_info, "localized", List(<<>>))
             en_name_entry == FirstEN(localized_stages)
         IN  IF en_name_entry.raised THEN en_name_entry
             ELSE IF Truthy(en_name_entry.value)
                  THEN Ret(Get(en_name_entry.value, "name"))
             ELSE IF Truthy(localized_stages)
                  THEN Ret(Get(localized_stages.items[1], "name"))
             ELSE Ret(Null)

-----------------------------------------------------------------------------
(* extract_schedule_info: the body of the loop, for one item *)

UnknownStage == Str("Unknown Stage")

\* Lines 69-70: artist_info and artist_name.
artist_name_of(item) ==
    LET artist_info == GetD(item, "artist", Obj(EmptyFields))
    IN  IF ~Truthy(artist_info) THEN Ret(Null)
        ELSE IF ~IsObj(artist_info) THEN Raise("AttributeError")
        ELSE Ret(Get(artist_info, "name"))

\* Variant: falls back to the first localized entry, as extract_stage_name does.
en_artist_info_of_Fallback(artist_info) ==
    IF Truthy(artist_info) /\ IsObj(artist_info) /\ Has(artist_info, "localized")
    THEN LET en == FirstEN(artist_info.f["localized"])
         IN  IF en.raised \/ Truthy(en.value) THEN en
             ELSE IF Truthy(artist_info.f["localized"])
                  THEN Ret(artist_info.f["localized"].items[1])
             ELSE Ret(Null)
    ELSE Ret(Null)

\* Lines 73-75: the English localized artist info, or None.
en_artist_info_of(artist_info) ==
    IF Truthy(artist_info) /\ IsObj(artist_info) /\ Has(artist_info, "localized")
    THEN FirstEN(artist_info.f["localized"])
    ELSE Ret(Null)

\* Variant: the artist name is only tested against None.
InclusionGate_NameNotNone(schedule_id, date_from_ms, artist_name) ==
    schedule_id # Null /\ date_from_ms # Null /\ artist_name # Null

\* Line 78: the check for critical data.
InclusionGate(schedule_id, date_from_ms, artist_name) ==
    schedule_id # Null /\ date_from_ms # Null /\ Truthy(artist_name)

\* Variant: the print that line 101 keeps commented out is live.
skip_lines_Printed(schedule_id) == <<[kind |-> "skipping", id |-> schedule_id]>>

\* Lines 99-102: what the else branch prints for a skipped item.
skip_lines(schedule_id) == <<>>

\* Line 105: the except handler's print; item is known to be an object.
error_line(item) == [kind |-> "item_error", id |-> GetD(item, "id", Str("Unknown"))]

\* Line 67
warning_line(schedule_id) == [kind |-> "stage_warning", id |-> schedule_id]

Caught(item, lines) ==
    [status |-> "caught", lines |-> Append(lines, error_line(item)),
     key |-> Null, entry |-> Null]

\* One iteration of the for loop, try/except included.  status is
\*   "kept"    the record `entry` is appended under `key`
\*   "skipped" the item failed the check for critical data
\*   "caught"  an exception was raised and the handler logged it
\*   "abort"   an exception escaped the handler
process_item(item) ==
    IF ~IsObj(item)
    THEN \* item.get raises in the try block and again in the handler
         [status |-> "abort", lines |-> <<>>, key |-> Null, entry |-> Null]
    ELSE
    LET schedule_id  == Get(item, "id")
        date_from_ms == Get(item, "date_from")
        date_to_ms   == Get(item, "date_to")
        stage_info   == Get(item, "stage")
        resolved     == extract_stage_name(stage_info)
    IN  IF resolved.raised THEN Caught(item, <<>>)
        ELSE
        LET no_name    == ~Truthy(resolved.value)
            stage_name == IF no_name THEN UnknownStage ELSE resolved.value
            lines1     == IF no_name THEN <<warning_line(schedule_id)>> ELSE <<>>
            artist_info == GetD(item, "artist", Obj(EmptyFields))
            artist_name == artist_name_of(item)
        IN  IF artist_name.raised THEN Caught(item, lines1)
            ELSE
            LET en_artist_info == en_artist_info_of(artist_info)
            IN  IF en_artist_info.raised THEN Caught(item, lines1)
                ELSE IF ~InclusionGate(schedule_id, date_from_ms, artist_name.value)
                THEN [status |-> "skipped",
                      lines |-> lines1 \o skip_lines(schedule_id),
                      key |-> Null, entry |-> Null]
                ELSE
                LET iso_date_from == timestamp_to_iso8601(date_from_ms)
                    lines2 == lines1 \o iso_date_from.lines
                IN  IF iso_date_from.raised THEN Caught(item, lines2)
                    ELSE
                    LET iso_date_to == timestamp_to_iso8601(date_to_ms)
                        lines3 == lines2 \o iso_date_to.lines
                        genre == IF Truthy(en_artist_info.value)
                                 THEN Get(en_artist_info.value, "genre")
                                 ELSE Null
                        performance_entry ==
                            [id |-> schedule_id,
                             date_from_iso8601 |-> iso_date_from.value,
                             date_to_iso8601 |-> iso_date_to.value,
                             artist_name |-> artist_name.value,
                             genre |-> genre]
                    IN  IF iso_date_to.raised THEN Caught(item, lines3)
                        ELSE IF stage_name.t \in {"list", "obj"}
                        THEN \* an unhashable dictionary key
                             Caught(item, lines3)
                        ELSE [status |-> "kept", lines |-> lines3,
                              key |-> stage_name, entry |-> performance_entry]

\* Lines 95-97: append under the stage key, creating the list on first use.
\* A mapping is a function from its keys to sequences.
AppendUnder(dict, key, x) ==
    IF key \in DOMAIN dict
    THEN [dict EXCEPT ![key] = Append(@, x)]
    ELSE [k \in DOMAIN dict \cup {key} |-> IF k = key THEN <<x>> ELSE dict[k]]

EmptyDict == [k \in {} |-> <<>>]

-----------------------------------------------------------------------------
(* The decoded responses the fetcher can hand to main *)

\* Longest schedules list explored.
MaxItems == 2

\* Marks a key that the object does not have.
Missing == [t |-> "missing"]

\* The object with the given <<key, value>> pairs, Missing ones left out.
MkObj(pairs) ==
    LET present == {p \in pairs : p[2] # Missing}
    IN  Obj([k \in {p[1] : p \in present} |->
                (CHOOSE p \in present : p[1] = k)[2]])

StageEntry(language, name) == MkObj({<<"language", Str(language)>>, <<"name", name>>})
ArtistEntry(language, genre) == MkObj({<<"language", Str(language)>>, <<"genre", genre>>})
Stage(localized) == MkObj({<<"localized", localized>>})
Artist(name, localized) == MkObj({<<"name", name>>, <<"localized", localized>>})

GoodId == Num(7)
GoodDates == <<Num(90061001), Num(93661002)>>
GoodStage == Stage(List(<<StageEntry("EN", Str("Main Stage"))>>))
GoodArtist == Artist(Str("Band X"), List(<<ArtistEntry("EN", Str("Metal"))>>))

IdOpts == {GoodId, Missing, Null}

\* <<date_from, date_to>>
DateOpts ==
    {GoodDates,
     <<Num(90061001), Missing>>,
     <<Missing, Num(93661002)>>,
     <<Null, Num(93661002)>>,
     <<Num(MaxTimestampMs + 1), Num(93661002)>>,
     <<Num(0), Num(MaxTimestampMs + 1)>>}

\* Stages from which extract_stage_name gets no name.
NamelessStageOpts ==
    {Missing, Null, Stage(Missing), Stage(Null), Stage(List(<<>>)),
     Stage(List(<<StageEntry("EN", Missing), StageEntry("FR", Str("Scene A"))>>)),
     Stage(List(<<StageEntry("EN", Str(""))>>))}

StageOpts ==
    NamelessStageOpts \cup
    {GoodStage,
     Stage(List(<<StageEntry("FR", Str("Scene A"))>>)),
     Stage(List(<<StageEntry("FR", Str("Scene A")), StageEntry("EN", Str("Stage A"))>>))}

ArtistOpts ==
    {GoodArtist, Missing, Null, Artist(Missing, Missing),
     Artist(Str(""), Missing), Artist(Null, Null),
     Artist(Str("Band X"), Missing), Artist(Str("Band X"), Null),
     Artist(Str("Band X"), List(<<>>)),
     Artist(Str("Band X"), List(<<ArtistEntry("CS", Str("Rock"))>>)),
     Artist(Str("Band X"),
            List(<<ArtistEntry("CS", Str("Rock")), ArtistEntry("EN", Str("Metal"))>>)),
     Artist(Str("Band X"), List(<<ArtistEntry("EN", Missing)>>))}

Item(id, dates, stage, artist) ==
    MkObj({<<"id", id>>, <<"date_from", dates[1]>>, <<"date_to", dates[2]>>,
           <<"stage", stage>>, <<"artist", artist>>})

\* How many of the four choices differ from the well-formed item.
Oddities(id, dates, stage, artist) ==
    (IF id = GoodId THEN 0 ELSE 1) + (IF dates = GoodDates THEN 0 ELSE 1)
    + (IF stage = GoodStage THEN 0 ELSE 1) + (IF artist = GoodArtist THEN 0 ELSE 1)

\* The schedule items explored: the well-formed item, every item that differs
\* from it in one choice, the items without a stage (or with a null localized
\* list) that also lack a critical field or have a null artist localized list,
\* and two values that are not objects.
Items ==
    {Item(c[1], c[2], c[3], c[4]) :
        c \in {d \in IdOpts \X DateOpts \X StageOpts \X ArtistOpts :
                 \/ Oddities(d[1], d[2], d[3], d[4]) <= 1
                 \/ /\ Oddities(d[1], d[2], d[3], d[4]) = 2
                    /\ d[3] \in {Missing, Stage(Null)}
                    /\ \/ d[1] = Null
                       \/ d[2][1] = Null
                       \/ d[4] \in {Null, Artist(Null, Null),
                                    Artist(Str("Band X"), Null)}}}
    \cup {Str("x"), Null}

RECURSIVE SeqsUpTo(_, _)
\* The sequences over S of length at most n.
SeqsUpTo(S, n) ==
    IF n = 0 THEN {<<>>}
    ELSE LET shorter == SeqsUpTo(S, n - 1)
         IN  shorter \cup {Append(q, x) : q \in {r \in shorter : Len(r) = n - 1}, x \in S}

\* Decoded JSON bodies: a schedules list, and the shapes without one.
RawInputs ==
    {MkObj({<<"schedules", List(q)>>}) : q \in SeqsUpTo(Items, MaxItems)}
    \cup {Null, Obj(EmptyFields), List(<<>>), Num(0), Str(""),
          MkObj({<<"message", Str("maintenance")>>}),
          MkObj({<<"schedules", Null>>}),
          MkObj({<<"schedules", Obj(EmptyFields)>>}),
          List(<<Str("schedules")>>)}

-----------------------------------------------------------------------------
(* State machine: one run of main *)

NoFile == [t |-> "nofile"]
StaleFile == [t |-> "file", content |-> Str("output of an earlier run")]

Line(text) == [kind |-> "print", text |-> text]

\* The list the for loop iterates; used only once the loop has been entered.
Schedules == raw_data.f["schedules"].items

Init ==
    /\ pc = "start"
    /\ fetched = "none"
    /\ raw_data = Null
    /\ idx = 1
    /\ stages_dict = EmptyDict
    /\ stages_data = EmptyDict
    /\ log = <<>>
    /\ file0 \in {NoFile, StaleFile}
    /\ file = file0
    /\ writes = 0
    /\ origin = EmptyDict
    /\ emitted = <<>>

\* Lines 130-131 and 8-19: the request either fails (network error, HTTP
\* error status, body that is not JSON) and yields None, or yields the body.
fetch_and_extract_schedule_data ==
    /\ pc = "start"
    /\ \/ \E failure \in {"network", "status", "decode"} :
             /\ fetched' = failure
             /\ raw_data' = Null
             /\ log' = log \o <<Line("Fetching schedule data..."),
                                [kind |-> "fetch_error", cause |-> failure]>>
       \/ \E body \in RawInputs :
             /\ fetched' = "ok"
             /\ raw_data' = body
             /\ log' = Append(log, Line("Fetching schedule data..."))
    /\ pc' = "fetched"
    /\ UNCHANGED <<idx, stages_dict, stages_data, file, writes, origin, emitted, file0>>

\* Lines 133-135: raw_data is truthy.
MainExtract ==
    /\ pc = "fetched"
    /\ Truthy(raw_data)
    /\ log' = Append(log, Line("Extracting information..."))
    /\ pc' = "extract"
    /\ UNCHANGED <<fetched, raw_data, idx, stages_dict, stages_data, file, writes,
                   origin, emitted, file0>>

\* Lines 157-159: raw_data is falsy; result_json is assigned and dropped.
MainFetchFailed ==
    /\ pc = "fetched"
    /\ ~Truthy(raw_data)
    /\ log' = Append(log, Line("Failed to retrieve or parse schedule data."))
    /\ pc' = "done"
    /\ UNCHANGED <<fetched, raw_data, idx, stages_dict, stages_data, file, writes,
                   origin, emitted, file0>>

\* 'schedules' in schedule_data: "yes", "no", or "TypeError".
ContainsSchedules(schedule_data) ==
    CASE schedule_data.t = "obj" ->
            IF Has(schedule_data, "schedules") THEN "yes" ELSE "no"
      [] schedule_data.t = "list" ->
            IF \E i \in 1..Len(schedule_data.items) :
                  schedule_data.items[i] = Str("schedules")
            THEN "yes" ELSE "no"
      [] OTHER -> "TypeError"

\* What `for item in schedule_data['schedules']` does on entry:
\* "loop" when the value can be iterated, else the exception.
EnterLoop(schedule_data) ==
    IF ~IsObj(schedule_data) THEN "TypeError"
    ELSE LET schedules == schedule_data.f["schedules"]
         IN  IF schedules.t = "list" THEN "loop"
             ELSE IF schedules.t = "obj" /\ DOMAIN schedules.f = {} THEN "empty"
             ELSE "TypeError"

\* Lines 48-55: the format check and the entry into the loop.  An exception
\* here is outside every try block and ends the run.
ExtractEntry ==
    /\ pc = "extract"
    /\ LET has == IF ~Truthy(raw_data) THEN "no" ELSE ContainsSchedules(raw_data)
       IN  \/ /\ has = "no"
              /\ log' = Append(log, Line("Invalid data format received."))
              /\ stages_data' = EmptyDict
              /\ pc' = "returned"
           \/ /\ has = "yes"
              /\ EnterLoop(raw_data) = "loop"
              /\ pc' = "loop"
              /\ UNCHANGED <<log, stages_data>>
           \/ /\ has = "yes"
              /\ EnterLoop(raw_data) = "empty"
              /\ stages_data' = EmptyDict
              /\ pc' = "returned"
              /\ UNCHANGED log
           \/ /\ \/ has = "TypeError"
                 \/ has = "yes" /\ EnterLoop(raw_data) = "TypeError"
              /\ pc' = "crashed"
              /\ UNCHANGED <<log, stages_data>>
    /\ idx' = 1
    /\ stages_dict' = EmptyDict
    /\ origin' = EmptyDict
    /\ emitted' = <<>>
    /\ UNCHANGED <<fetched, raw_data, file, writes, file0>>

\* Lines 55-106: one iteration of the loop.  origin records, next to each
\* record of stages_dict, the position of the item it was built from, and
\* emitted the lines printed for each item.
ProcessItem ==
    /\ pc = "loop"
    /\ idx <= Len(Schedules)
    /\ LET r == process_item(Schedules[idx])
       IN  /\ log' = log \o r.lines
           /\ emitted' = Append(emitted, r.lines)
           /\ IF r.status = "kept"
              THEN /\ stages_dict' = AppendUnder(stages_dict, r.key, r.entry)
                   /\ origin' = AppendUnder(origin, r.key, idx)
              ELSE UNCHANGED <<stages_dict, origin>>
           /\ pc' = IF r.status = "abort" THEN "crashed" ELSE "loop"
    /\ idx' = idx + 1
    /\ UNCHANGED <<fetched, raw_data, stages_data, file, writes, file0>>

\* Line 108: the list is exhausted.
ExtractReturn ==
    /\ pc = "loop"
    /\ idx > Len(Schedules)
    /\ stages_data' = stages_dict
    /\ pc' = "returned"
    /\ UNCHANGED <<fetched, raw_data, idx, stages_dict, log, file, writes,
                   origin, emitted, file0>>

\* Lines 137-151: the mapping is not empty and is saved.
MainSave ==
    /\ pc = "returned"
    /\ DOMAIN stages_data # {}
    /\ file' = [t |-> "file", content |-> stages_data]
    /\ writes' = writes + 1
    /\ log' = log \o <<[kind |-> "extracted", stages |-> Cardinality(DOMAIN stages_data)],
                       Line("Information in JSON format (showing structure):"),
                       Line("--------------------------------------------------"),
                       Line("Data saved")>>
    /\ pc' = "done"
    /\ UNCHANGED <<fetched, raw_data, idx, stages_dict, stages_data, origin,
                   emitted, file0>>

\* Variant: the empty result_json is dumped to the destination as well.
MainNoData_Dumps ==
    /\ pc = "returned"
    /\ DOMAIN stages_data = {}
    /\ log' = Append(log, Line("No valid schedule information extracted."))
    /\ file' = [t |-> "file", content |-> EmptyDict]
    /\ writes' = writes + 1
    /\ pc' = "done"
    /\ UNCHANGED <<fetched, raw_data, idx, stages_dict, stages_data,
                   origin, emitted, file0>>

\* Lines 153-155: the mapping is empty; result_json is assigned and dropped.
MainNoData ==
    /\ pc = "returned"
    /\ DOMAIN stages_data = {}
    /\ log' = Append(log, Line("No valid schedule information extracted."))
    /\ pc' = "done"
    /\ UNCHANGED <<fetched, raw_data, idx, stages_dict, stages_data, file, writes,
                   origin, emitted, file0>>

Next ==
    \/ fetch_and_extract_schedule_data
    \/ MainExtract
    \/ MainFetchFailed
    \/ ExtractEntry
    \/ ProcessItem
    \/ ExtractReturn
    \/ MainSave
    \/ MainNoData

Spec == Init /\ [][Next]_vars

-----------------------------------------------------------------------------
(* Vocabulary of the properties, read off the raw input *)

\* The decoded input holds a schedules list.
HasList ==
    /\ IsObj(raw_data)
    /\ Has(raw_data, "schedules")
    /\ raw_data.f["schedules"].t = "list"

\* extract_schedule_info has been called in this run.
Called == pc \in {"extract", "loop", "returned", "crashed"}
          \/ \E n \in 1..Len(log) : log[n] = Line("Extracting information...")

\* extract_schedule_info has returned its mapping (stages_data).
Returned == Called /\ pc \in {"returned", "done"}

Printed(text) == \E n \in 1..Len(log) : log[n] = Line(text)

\* The items of the list whose iteration is over.
Done == 1..Len(emitted)

RawArtistName(item) ==
    IF IsObj(item) /\ Has(item, "artist") /\ IsObj(item.f["artist"])
    THEN Get(item.f["artist"], "name")
    ELSE Null

NonEmptyName(v) == v.t = "str" /\ v.s # ""

\* The item has a non-null id, a non-null date_from and a non-empty artist name.
HasCritical(item) ==
    /\ IsObj(item)
    /\ Has(item, "id") /\ item.f["id"] # Null
    /\ Has(item, "date_from") /\ item.f["date_from"] # Null
    /\ NonEmptyName(RawArtistName(item))

\* The localized entries of item[field], <<>> when there is no such list.
Entries(item, field) ==
    LET holder == Get(item, field)
    IN  IF IsObj(holder) /\ Has(holder, "localized") /\ holder.f["localized"].t = "list"
        THEN holder.f["localized"].items
        ELSE <<>>

\* item[field].localized is present and null.
NullLocalized(item, field) ==
    LET holder == Get(item, field)
    IN  IsObj(holder) /\ Has(holder, "localized") /\ holder.f["localized"] = Null

\* The resolution policy: the first entry whose language is "EN"; without one,
\* the first entry if there is a fallback; else null.
Select(entries, fallback) ==
    LET en == {n \in 1..Len(entries) : Get(entries[n], "language") = Str("EN")}
    IN  IF en # {} THEN entries[CHOOSE n \in en : \A m \in en : n <= m]
        ELSE IF fallback /\ Len(entries) > 0 THEN entries[1]
        ELSE Null

FieldOf(entry, field) == IF entry = Null THEN Null ELSE Get(entry, field)

\* Stage-name resolution gives nothing for the item.
NoStageName(item) == ~NonEmptyName(FieldOf(Select(Entries(item, "stage"), TRUE), "name"))

\* The key the policy files the item under.
PolicyKey(item) ==
    IF NoStageName(item) THEN UnknownStage
    ELSE FieldOf(Select(Entries(item, "stage"), TRUE), "name")

\* The places <<stage, position>> of the mapping.
Places == UNION {{<<k, j>> : j \in 1..Len(origin[k])} : k \in DOMAIN origin}

\* The places holding the record built from item i.
Occ(i) == {p \in Places : origin[p[1]][p[2]] = i}

HasLine(lines, kind) == \E n \in 1..Len(lines) : lines[n].kind = kind

\* origin shadows stages_dict, and the mapping returned is stages_dict.
Shadow ==
    /\ DOMAIN origin = DOMAIN stages_dict
    /\ \A k \in DOMAIN origin : Len(origin[k]) = Len(stages_dict[k])
    /\ (Returned /\ HasList) => stages_data = stages_dict

-----------------------------------------------------------------------------
(* Properties *)

\* C1: whenever schedules is a list, every item with a non-null id, a non-null
\* date_from and a non-empty artist name has exactly one record in the mapping
\* returned, under one stage key, and the records of a stage are in the order
\* of their items in the list.
C1_EveryCompleteItemOnceInOrder ==
    (Returned /\ HasList) =>
        /\ Shadow
        /\ \A i \in 1..Len(Schedules) :
              HasCritical(Schedules[i]) => Cardinality(Occ(i)) = 1
        /\ \A k \in DOMAIN origin : \A a, b \in 1..Len(origin[k]) :
              a < b => origin[k][a] < origin[k][b]

\* C2: an item that lacks an id, a date_from or a non-empty artist name has
\* no record in any stage sequence, during the loop and in the mapping
\* returned: every record comes from an item that has all three.
C2_IncompleteItemsNeverRecorded ==
    /\ Shadow
    /\ \A p \in Places : HasCritical(Schedules[origin[p[1]][p[2]]])

\* C2 witness: extraction returned a non-empty mapping for a list that also
\* holds an object item lacking a critical field (artist: null among them).
C2_Witness ==
    /\ Returned /\ HasList
    /\ DOMAIN stages_data # {}
    /\ \E i \in 1..Len(Schedules) :
          /\ IsObj(Schedules[i])
          /\ Get(Schedules[i], "artist") = Null
          /\ Has(Schedules[i], "artist")

\* C3: a malformed item never aborts the run: when schedules is a list the
\* call never ends in an exception, and once it has returned, every item that
\* is not an object was logged as an error while every other complete item
\* whose processing raised nothing is in the mapping.
C3_MalformedItemNeverAborts ==
    HasList =>
        /\ pc # "crashed"
        /\ Returned =>
              \A i \in 1..Len(Schedules) :
                 ~IsObj(Schedules[i]) =>
                    /\ HasLine(emitted[i], "item_error")
                    /\ \A j \in 1..Len(Schedules) :
                          (j # i /\ HasCritical(Schedules[j])
                           /\ ~HasLine(emitted[j], "item_error")) => Occ(j) # {}

\* C7: when the decoded input handed to extract_schedule_info is null or has
\* no schedules list, the call raises nothing, logs the diagnostic and returns
\* the empty mapping.
C7_NoScheduleListGivesEmptyMapping ==
    (Called /\ ~HasList) =>
        /\ pc # "crashed"
        /\ pc \in {"returned", "done"} =>
              /\ stages_data = EmptyDict
              /\ Printed("Invalid data format received.")

\* C8: a complete item whose stage-name resolution yields nothing (stage
\* absent or null, localized absent, null or empty, selected entry without a
\* name) is recorded under "Unknown Stage" with a warning carrying its id; it
\* is not dropped for its missing stage name.  Items whose artist block has a
\* null localized list are left aside: they are lost for another reason.
C8_NamelessStageFiledUnderUnknown ==
    (Returned /\ HasList) =>
        \A i \in 1..Len(Schedules) :
           (/\ HasCritical(Schedules[i])
            /\ NoStageName(Schedules[i])
            /\ ~NullLocalized(Schedules[i], "artist")) =>
              /\ \E p \in Occ(i) : p[1] = UnknownStage
              /\ \E n \in 1..Len(emitted[i]) :
                    emitted[i][n] = warning_line(Get(Schedules[i], "id"))

\* C10: main prints the fetch-failure message only when the value the fetcher
\* returned is the no-data sentinel (None); whenever the fetcher returned any
\* other decoded value (an empty object or an empty list included), main calls
\* extract_schedule_info on it.
C10_FailureBranchOnlyOnSentinel ==
    /\ Printed("Failed to retrieve or parse schedule data.") => raw_data = Null
    /\ (fetched = "ok" /\ raw_data # Null /\ pc = "done") =>
          Printed("Extracting information...")

\* C4: the stage key of every record is the name of the first "EN" entry of
\* stage.localized, else of its first entry, else "Unknown Stage"; the genre
\* of every record is that of the first "EN" entry of artist.localized and is
\* null when the list has no "EN" entry (no fallback to the first entry).
C4_StageFallsBackGenreDoesNot ==
    \A p \in Places :
       LET item == Schedules[origin[p[1]][p[2]]]
       IN  /\ p[1] = PolicyKey(item)
           /\ stages_dict[p[1]][p[2]].genre =
                 FieldOf(Select(Entries(item, "artist"), FALSE), "genre")

\* C4 as claimed: one policy, with the fallback to the first entry, gives both
\* the stage key and the entry that supplies the genre.
C4_OnePolicyForStageAndGenre ==
    \A p \in Places :
       LET item == Schedules[origin[p[1]][p[2]]]
       IN  /\ p[1] = PolicyKey(item)
           /\ stages_dict[p[1]][p[2]].genre =
                 FieldOf(Select(Entries(item, "artist"), TRUE), "genre")

\* C4 witness: the mapping returned holds, under the name of a non-English
\* first entry, a record whose artist has localized entries but none in "EN".
C4_Witness ==
    /\ Returned /\ HasList
    /\ \E p \in Places :
          LET item == Schedules[origin[p[1]][p[2]]]
          IN  /\ Len(Entries(item, "artist")) > 0
              /\ Select(Entries(item, "artist"), FALSE) = Null
              /\ stages_data[p[1]][p[2]].genre = Null
    /\ \E p \in Places :
          LET item == Schedules[origin[p[1]][p[2]]]
          IN  /\ Select(Entries(item, "stage"), FALSE) = Null
              /\ p[1] = Str("Scene A")

\* date_from of the item is a number that datetime.fromtimestamp rejects.
OutOfRange(item) ==
    LET d == Get(item, "date_from")
    IN  d.t = "num" /\ (d.n > MaxTimestampMs \/ d.n < -MaxTimestampMs)

\* C5: every record has a non-null id and a non-empty artist_name, and its
\* date_from_iso8601 is null exactly when the item's date_from fails the
\* conversion: such an item is kept, with a null date_from_iso8601.
C5_RecordFieldsNullDateOnlyOnFailedConversion ==
    \A p \in Places :
       LET item == Schedules[origin[p[1]][p[2]]]
           rec  == stages_dict[p[1]][p[2]]
       IN  /\ rec.id # Null
           /\ NonEmptyName(rec.artist_name)
           /\ (rec.date_from_iso8601 = Null) <=> OutOfRange(item)

\* C5 as claimed: every record has a non-null id, a non-empty artist_name and
\* a non-null date_from_iso8601.
C5_RecordFieldsNeverNull ==
    \A p \in Places :
       LET rec == stages_dict[p[1]][p[2]]
       IN  /\ rec.id # Null
           /\ NonEmptyName(rec.artist_name)
           /\ rec.date_from_iso8601 # Null

\* C5 witness: the mapping returned holds a record with a null
\* date_from_iso8601, built from an item whose date_from is out of range, and
\* a record built from an item whose date_from is the epoch.
C5_Witness ==
    /\ Returned /\ HasList
    /\ \E p \in Places :
          /\ OutOfRange(Schedules[origin[p[1]][p[2]]])
          /\ stages_data[p[1]][p[2]].date_from_iso8601 = Null
    /\ \E p \in Places :
          /\ Get(Schedules[origin[p[1]][p[2]]], "date_from") = Num(0)
          /\ stages_data[p[1]][p[2]].date_from_iso8601 # Null


\* C6: the destination file is written at most once in a run, only after a
\* successful fetch and an extraction that returned a non-empty mapping, and
\* what is written is that mapping; a run that ends after a failed fetch or
\* with an empty mapping has reported it and left the file as it was.
C6_FileWrittenOnceWithTheMapping ==
    /\ writes <= 1
    /\ writes = 1 =>
          /\ fetched = "ok" /\ Returned
          /\ DOMAIN stages_data # {}
          /\ file = [t |-> "file", content |-> stages_data]
    /\ writes = 0 => file = file0
    /\ (pc = "done" /\ fetched # "ok") =>
          /\ writes = 0 /\ file = file0
          /\ Printed("Failed to retrieve or parse schedule data.")
    /\ (pc = "done" /\ Returned /\ DOMAIN stages_data = {}) =>
          /\ writes = 0 /\ file = file0
          /\ Printed("No valid schedule information extracted.")

\* C6 witness: a run over a non-empty list has ended with an empty mapping and
\* the file of an earlier run is still in place.
C6_Witness ==
    /\ pc = "done" /\ Returned /\ HasList
    /\ Len(Schedules) > 0
    /\ DOMAIN stages_data = {}
    /\ file0 = StaleFile /\ file = StaleFile

\* The loop is about to process an item that fails the inclusion gate.
AtIncompleteItem ==
    /\ pc = "loop"
    /\ idx <= Len(Schedules)
    /\ ~HasCritical(Schedules[idx])

\* What the log shows for the object items that failed the gate.
IncompleteItemLines ==
    \A i \in Done :
       LET item == Schedules[i]
       IN  (IsObj(item) /\ ~HasCritical(item)) =>
              /\ Occ(i) = {}
              /\ (~NoStageName(item) /\ ~HasLine(emitted[i], "item_error")) =>
                    emitted[i] = <<>>
              /\ (NoStageName(item) /\ ~NullLocalized(item, "stage")) =>
                    /\ emitted[i] # <<>>
                    /\ emitted[i][1] = warning_line(Get(item, "id"))

====
